---- MODULE Spec2Model ----
(***************************************************************************)
(* Model of the calculation engine of Green-Energy-Predictive-Advisor     *)
(* (src/engine.py): compute_load_profile, compute_solar_profile,          *)
(* compute_savings_profile, recommend_ecoflow_tiers and                   *)
(* calculate_energy_profile over the catalogs loaded at import.           *)
(*                                                                         *)
(* Numbers.  Python floats are modelled as exact fixed-point integers:     *)
(*   energy          1 unit = 0.0001 kWh (= 0.1 Wh), so round(x, 3) is     *)
(*                   rounding to a multiple of 10 units;                   *)
(*   catalog power   1 unit = 0.1 W, so int(round(x)) is a division by 10  *)
(*                   with rounding; a returned peak band is in whole W;    *)
(*   tier fields     capacity in Wh, inverter in W;                        *)
(*   solar yield     1 unit = 0.01 kWh/kWp; panel wattage in W;            *)
(*   money, CO2      1 unit = 0.01 TL, 0.01 kg.                            *)
(* Binary floating point error is not modelled.                            *)
(*                                                                         *)
(* JSON values read from a catalog or a profile are tagged records, so     *)
(* that float() and the list test of _safe_band can fail as they do in     *)
(* Python: Num(n), Str(chars), Null, List(items).  A Python dict is a      *)
(* function on strings (a record); an ordered dict that is iterated is a   *)
(* sequence of <<key, value>> pairs.  None for an optional argument is     *)
(* the empty sequence and a given value x is <<x>>.                        *)
(***************************************************************************)
EXTENDS Integers, Sequences, FiniteSets, TLC

VARIABLES
    archetypes_db,        \* engine.archetypes_db, loaded at import
    pack_dbs,             \* the five packs_*_db tables, by table name
    solar_generation_db,  \* engine.solar_generation_db
    ecoflow_tiers_db,     \* engine.ecoflow_tiers_db, in file order
    pc,                   \* "idle", "loaded", "profiled", "recommended"
                          \* or "raised"
    call,                 \* the arguments of the last call made
    profile,              \* what compute_load_profile or
                          \* calculate_energy_profile returned or raised
    required,             \* recommend_ecoflow_tiers' two requirements
    recommendations       \* what recommend_ecoflow_tiers returned or raised

dbs == <<archetypes_db, pack_dbs, solar_generation_db, ecoflow_tiers_db>>

vars == <<dbs, pc, call, profile, required, recommendations>>

\* ---------------------------------------------------------------- values

Num(n) == [t |-> "num", v |-> n]
Str(s) == [t |-> "str", s |-> s]
Null == [t |-> "null"]
List(items) == [t |-> "list", items |-> items]

None == << >>
Some(x) == << x >>

\* Python truthiness of an optional string: None and "" are falsy.
TruthyStr(o) == o # None /\ o[1] # ""

\* dict.get(k, default)
Get(d, k, default) == IF k \in DOMAIN d THEN d[k] ELSE default

Min2(a, b) == IF a <= b THEN a ELSE b
Max2(a, b) == IF a >= b THEN a ELSE b

\* round() of q + r/d (0 <= r < d) to the nearest integer, ties to even.
RoundQR(q, r, d) ==
    IF 2 * r < d THEN q
    ELSE IF 2 * r > d THEN q + 1
    ELSE IF q % 2 = 0 THEN q ELSE q + 1

\* round(): n/d to the nearest integer (d > 0).
RoundDiv(n, d) == RoundQR(n \div d, n % d, d)

\* Floor quotient and remainder of a*b by d for a >= 0, one decimal digit
\* of a at a time, so that no intermediate value leaves 32 bits.
RECURSIVE MulDivNat(_, _, _)
MulDivNat(a, b, d) ==
    IF a = 0 THEN [q |-> 0, r |-> 0]
    ELSE LET h == MulDivNat(a \div 10, b, d)
             t == 10 * h.r + (a % 10) * b
         IN  [q |-> 10 * h.q + t \div d, r |-> t % d]

\* round(a * b / d), for any sign of a (b >= 0, d > 0).
RoundMulDiv(a, b, d) ==
    IF a >= 0
    THEN LET x == MulDivNat(a, b, d) IN RoundQR(x.q, x.r, d)
    ELSE LET x == MulDivNat(-a, b, d)
         IN  IF x.r = 0 THEN -x.q ELSE RoundQR(-x.q - 1, d - x.r, d)

\* round(x, 3) on an energy in units of 0.0001 kWh.
Round3(x) == 10 * RoundDiv(x, 10)

\* int(round(x)) on a power in units of 0.1 W; the result is in W.
RoundW(x) == RoundDiv(x, 10)

Digits == <<"0", "1", "2", "3", "4", "5", "6", "7", "8", "9">>

IsDigit(c) == \E i \in 1..10 : Digits[i] = c

DigitVal(c) == (CHOOSE i \in 1..10 : Digits[i] = c) - 1

RECURSIVE ParseDigits(_, _)
ParseDigits(s, acc) ==
    IF s = << >> THEN acc
    ELSE ParseDigits(Tail(s), 10 * acc + DigitVal(Head(s)))

\* float(x): a number converts to itself; a string converts when it is a
\* decimal literal (here: a non-empty string of digits) and raises
\* ValueError otherwise; None and a list raise TypeError.
Float(x) ==
    IF x.t = "num" THEN [ok |-> TRUE, v |-> x.v, err |-> "none"]
    ELSE IF x.t = "str"
    THEN IF x.s # << >> /\ \A i \in 1..Len(x.s) : IsDigit(x.s[i])
         THEN [ok |-> TRUE, v |-> ParseDigits(x.s, 0), err |-> "none"]
         ELSE [ok |-> FALSE, v |-> 0, err |-> "ValueError"]
    ELSE [ok |-> FALSE, v |-> 0, err |-> "TypeError"]

\* ------------------------------------------------------------ catalogs
\* The datasets/*.json files are not part of the sources: the tables below
\* are two sets of catalogs the engine may have loaded, a regular one
\* ("std") and an irregular one ("odd").

Band(a, b, c) == List(<<Num(a), Num(b), Num(c)>>)

ZeroBand == Band(0, 0, 0)

\* Bands that are non-negative and ordered.
StdArchetypes ==
    [home |-> [base_load_kwh_day |-> Band(20000, 30000, 45000),
               base_peak_w |-> Band(2000, 4000, 8000)]]

StdPacks ==
    [ac1p |-> [lighting |-> [kwh_day |-> Band(5000, 10000, 20000),
                             peak_w |-> Band(500, 1000, 3000)]],
     ac3p |-> [pump |-> [kwh_day |-> Band(10000, 25000, 60000),
                         peak_w |-> Band(15000, 22000, 40000)]],
     dc12v |-> [router |-> [kwh_day |-> Band(104, 246, 512),
                            peak_w |-> Band(44, 66, 125)]],
     dc24v |-> [camera |-> [kwh_day |-> Band(300, 600, 900),
                            peak_w |-> Band(50, 80, 120)]],
     dc48v |-> << >>]

\* Bands out of order, negative, of the wrong length or not numeric; an
\* entry that is an empty dict; a band that is missing.
OddArchetypes ==
    [home |-> [base_load_kwh_day |-> Band(45000, 30000, 20000)]]

OddPacks ==
    [ac1p |-> [lighting |-> [kwh_day |-> Band(20000, 10000, 5000),
                             peak_w |-> Band(3000, 1000, 0)],
               fridge |-> << >>],
     ac3p |-> << >>,
     dc12v |-> [router |-> [kwh_day |-> Band(-1000, 2000, 1000),
                            peak_w |-> List(<<Num(44), Str(<<"n", "a">>),
                                              Num(125)>>)]],
     dc24v |-> [camera |-> [kwh_day |-> List(<<Num(300), Num(600)>>),
                            peak_w |-> Null]],
     dc48v |-> << >>]

SolarGeneration ==
    [Istanbul |-> [summer_kwh_per_kwp |-> 520, winter_kwh_per_kwp |-> 280]]

Tier(capacity, inverter) ==
    [capacity_wh_total |-> capacity, inverter_w_continuous |-> inverter]

EcoflowTiers ==
    << <<"tier_3_pro", Tier(Num(8192), Num(3600))>>,
       <<"tier_1_basic", Tier(Num(1024), Num(600))>>,
       <<"tier_2_comfort", Tier(Num(4096), Num(1800))>> >>

\* Catalogs handed to recommend_ecoflow_tiers as tiers_db: None (the
\* global), one without the default tier, ones with fields that are
\* missing, null or not numeric, with and without the default tier.
TierCatalogs ==
    { << >>,
      << <<"big", Tier(Num(6144), Num(3000))>>,
         <<"small", Tier(Num(2048), Num(1200))>>,
         <<"big_b", Tier(Str(<<"6", "1", "4", "4">>), Num(2400))>> >>,
      << <<"broken", Tier(Str(<<"n", "a">>), Num(1000))>>,
         <<"mid", Tier(Num(5000), Num(2000))>> >>,
      << <<"bare", [inverter_w_continuous |-> Num(500)]>>,
         <<"no_inverter", Tier(Num(512), Null)>>,
         <<"tiny", Tier(Num(256), Num(100))>> >>,
      << <<"huge", Tier(Num(99999), Num(9999))>>,
         <<"tier_2_comfort", Tier(Null, Num(1800))>> >>,
      << <<"null_cap", Tier(Null, Num(700))>>,
         <<"mid", Tier(Num(5000), Num(2000))>> >> }

\* ------------------------------------------------------------- helpers

_safe_band(value) ==
    IF value.t # "list" THEN <<0, 0, 0>>
    ELSE IF Len(value.items) # 3 THEN <<0, 0, 0>>
    ELSE LET m0 == Float(value.items[1])
             m1 == Float(value.items[2])
             m2 == Float(value.items[3])
         IN  IF m0.ok /\ m1.ok /\ m2.ok THEN <<m0.v, m1.v, m2.v>>
             ELSE <<0, 0, 0>>

\* str.lower() on the group names that occur in requests.
Lower(s) ==
    CASE s = "AC1P" -> "ac1p"
      [] s = "DC12" -> "dc12"
      [] OTHER -> s

_get_pack_db(group) ==
    LET g == Lower(group)
    IN  IF g \in {"ac1p", "ac", "ac_1p"}
        THEN [raised |-> "none", db |-> pack_dbs.ac1p]
        ELSE IF g \in {"ac3p", "ac_3p"}
        THEN [raised |-> "none", db |-> pack_dbs.ac3p]
        ELSE IF g \in {"dc12", "dc12v"}
        THEN [raised |-> "none", db |-> pack_dbs.dc12v]
        ELSE IF g \in {"dc24", "dc24v"}
        THEN [raised |-> "none", db |-> pack_dbs.dc24v]
        ELSE IF g \in {"dc48", "dc48v"}
        THEN [raised |-> "none", db |-> pack_dbs.dc48v]
        ELSE [raised |-> "KeyError", db |-> << >>]

\* `not d` for a value that is None or a dict: the empty dict is falsy too.
Falsy(d) == d = Null \/ DOMAIN d = {}

\* ------------------------------------------------- compute_load_profile

\* usage_index = max(0, min(usage_index, 2))
ClampIndex(u) == Max2(0, Min2(u, 2))

\* The accumulators before the archetype and the packs are added.
ZeroAcc ==
    [raised |-> "none",
     min_kwh |-> 0, avg_kwh |-> 0, max_kwh |-> 0,
     peak_min |-> 0, peak_avg |-> 0, peak_max |-> 0]

\* AddArchetype without the lookup failure: an unknown id adds nothing.
AddArchetypeLenient(acc, archetype_id, expert_mode) ==
    IF ~expert_mode /\ TruthyStr(archetype_id)
    THEN LET arch == Get(archetypes_db, archetype_id[1], Null)
         IN  IF Falsy(arch) THEN acc
             ELSE LET b == _safe_band(Get(arch, "base_load_kwh_day", Null))
                      p == _safe_band(Get(arch, "base_peak_w", Null))
                  IN  [acc EXCEPT !.min_kwh = @ + b[1],
                                  !.avg_kwh = @ + b[2],
                                  !.max_kwh = @ + b[3],
                                  !.peak_min = Max2(@, p[1]),
                                  !.peak_avg = Max2(@, p[2]),
                                  !.peak_max = Max2(@, p[3])]
    ELSE acc

\* The archetype baseline.
AddArchetype(acc, archetype_id, expert_mode) ==
    IF ~expert_mode /\ TruthyStr(archetype_id)
    THEN LET arch == Get(archetypes_db, archetype_id[1], Null)
         IN  IF Falsy(arch) THEN [acc EXCEPT !.raised = "KeyError"]
             ELSE LET b == _safe_band(Get(arch, "base_load_kwh_day", Null))
                      p == _safe_band(Get(arch, "base_peak_w", Null))
                  IN  [acc EXCEPT !.min_kwh = @ + b[1],
                                  !.avg_kwh = @ + b[2],
                                  !.max_kwh = @ + b[3],
                                  !.peak_min = Max2(@, p[1]),
                                  !.peak_avg = Max2(@, p[2]),
                                  !.peak_max = Max2(@, p[3])]
    ELSE acc

\* Accumulate without the broadening of the band at "typical".
AccumulateNoBroadening(acc, k, p, usage_index) ==
    LET kwh_val == k[usage_index + 1]
        peak_val == p[usage_index + 1]
        a1 == IF usage_index = 0
              THEN [acc EXCEPT !.min_kwh = @ + kwh_val]
              ELSE IF usage_index = 1
              THEN [acc EXCEPT !.avg_kwh = @ + kwh_val]
              ELSE [acc EXCEPT !.max_kwh = @ + kwh_val]
    IN  IF usage_index = 0
        THEN [a1 EXCEPT !.peak_min = Max2(@, peak_val)]
        ELSE IF usage_index = 1
        THEN [a1 EXCEPT !.peak_avg = Max2(@, peak_val)]
        ELSE [a1 EXCEPT !.peak_max = Max2(@, peak_val)]

\* The accumulation of one resolved pack at a clamped usage index,
\* with the broadening of the band when "typical" is chosen.
Accumulate(acc, k, p, usage_index) ==
    LET kwh_val == k[usage_index + 1]
        peak_val == p[usage_index + 1]
        a1 == IF usage_index = 0
              THEN [acc EXCEPT !.min_kwh = @ + kwh_val]
              ELSE IF usage_index = 1
              THEN [acc EXCEPT !.avg_kwh = @ + kwh_val]
              ELSE [acc EXCEPT !.max_kwh = @ + kwh_val]
        a2 == IF usage_index = 0
              THEN [a1 EXCEPT !.peak_min = Max2(@, peak_val)]
              ELSE IF usage_index = 1
              THEN [a1 EXCEPT !.peak_avg = Max2(@, peak_val)]
              ELSE [a1 EXCEPT !.peak_max = Max2(@, peak_val)]
    IN  IF usage_index = 1
        THEN [a2 EXCEPT !.min_kwh = @ + k[1],
                        !.max_kwh = @ + k[3],
                        !.peak_min = Max2(@, p[1]),
                        !.peak_max = Max2(@, p[3])]
        ELSE a2

\* AddPack with an unknown key treated as an unknown group is: an error.
AddPackStrict(acc, item) ==
    LET group == Get(item, "group", "ac1p")
        key == Get(item, "key", "")
        usage_index == ClampIndex(Get(item, "usage_index", 1))
        got == _get_pack_db(group)
    IN  IF got.raised # "none" THEN [acc EXCEPT !.raised = got.raised]
        ELSE LET pack == Get(got.db, key, Null)
             IN  IF Falsy(pack) THEN [acc EXCEPT !.raised = "KeyError"]
                 ELSE Accumulate(acc,
                                 _safe_band(Get(pack, "kwh_day", Null)),
                                 _safe_band(Get(pack, "peak_w", Null)),
                                 usage_index)

\* One iteration of the loop over the pack selections.
AddPack(acc, item) ==
    LET group == Get(item, "group", "ac1p")
        key == Get(item, "key", "")
        usage_index == ClampIndex(Get(item, "usage_index", 1))
        got == _get_pack_db(group)
    IN  IF got.raised # "none" THEN [acc EXCEPT !.raised = got.raised]
        ELSE LET pack == Get(got.db, key, Null)
             IN  IF Falsy(pack) THEN acc
                 ELSE Accumulate(acc,
                                 _safe_band(Get(pack, "kwh_day", Null)),
                                 _safe_band(Get(pack, "peak_w", Null)),
                                 usage_index)

\* The loop: an exception ends it.
RECURSIVE PackLoop(_, _)
PackLoop(acc, packs) ==
    IF packs = << >> \/ acc.raised # "none" THEN acc
    ELSE PackLoop(AddPack(acc, Head(packs)), Tail(packs))

\* The band returned as accumulated, with no consistency block.
ConsistencyOmitted(b) == b

\* The consistency block with typical raised to the accumulated minimum
\* before the minimum is clamped.
ConsistencyEarlyRaise(b) ==
    LET max1 == IF b[3] = 0 /\ b[2] > 0 THEN b[2] ELSE b[3]
        avg1 == IF b[2] < b[1] THEN b[1] ELSE b[2]
        min2 == Min2(b[1], Min2(avg1, max1))
        max2 == Max2(max1, Max2(avg1, min2))
    IN  <<min2, avg1, max2>>

\* The "consistency" block, on <<min_kwh, avg_kwh, max_kwh>>.
Consistency(b) ==
    LET max1 == IF b[3] = 0 /\ b[2] > 0 THEN b[2] ELSE b[3]
        min2 == Min2(b[1], Min2(b[2], max1))
        max2 == Max2(max1, Max2(b[2], min2))
        avg2 == IF b[2] < min2 THEN min2 ELSE b[2]
    IN  <<min2, avg2, max2>>

NoValue == [none |-> TRUE]

compute_load_profile(archetype_id, expert_mode, packs) ==
    LET a0 == AddArchetype(ZeroAcc, archetype_id, expert_mode)
        acc == PackLoop(a0, packs)
        kwh == Consistency(<<acc.min_kwh, acc.avg_kwh, acc.max_kwh>>)
    IN  IF acc.raised # "none"
        THEN [raised |-> acc.raised, value |-> NoValue]
        ELSE [raised |-> "none",
              value |->
                [archetype |-> archetype_id,
                 expert_mode |-> expert_mode,
                 daily_kwh_band |->
                    List(<<Num(Round3(kwh[1])), Num(Round3(kwh[2])),
                           Num(Round3(kwh[3]))>>),
                 peak_power_band_w |->
                    List(<<Num(RoundW(acc.peak_min)),
                           Num(RoundW(acc.peak_avg)),
                           Num(RoundW(acc.peak_max))>>)]]

\* ------------------------------------------------ compute_solar_profile

\* calculate_energy_profile passes no solar_db, so the table is the global.
compute_solar_profile(city, solar_wp) ==
    IF ~TruthyStr(city) THEN [raised |-> "ValueError", value |-> NoValue]
    ELSE IF city[1] \notin DOMAIN solar_generation_db
    THEN [raised |-> "KeyError", value |-> NoValue]
    ELSE LET solar_city == solar_generation_db[city[1]]
             summer == Get(solar_city, "summer_kwh_per_kwp", 0)
             winter == Get(solar_city, "winter_kwh_per_kwp", 0)
         IN  [raised |-> "none",
              value |->
                [city |-> city[1],
                 wp |-> solar_wp,
                 kwp |-> solar_wp,   \* in units of 0.001 kWp
                 summer_daily_kwh |-> 10 * RoundDiv(summer * solar_wp, 100),
                 winter_daily_kwh |-> 10 * RoundDiv(winter * solar_wp, 100),
                 avg_daily_kwh |->
                    10 * RoundDiv((6 * summer + 4 * winter) * solar_wp, 1000)]]

\* ---------------------------------------------- compute_savings_profile

\* The keyword defaults: 3.1 TL/kWh in tenths, a growth of 0.25 = 1/4 as
\* its denominator, 5 years, 0.45 kg/kWh in hundredths, 365 days.
electricity_price_tl_per_kwh == 31
price_growth_rate_den == 4
horizon_years == 5
co2_kg_per_kwh == 45
DaysPerYear == 365

RECURSIVE Pow(_, _)
Pow(b, e) == IF e = 0 THEN 1 ELSE b * Pow(b, e - 1)

\* sum over year in range(horizon_years) of (1 + 1/den) ** year, as a
\* numerator over den ** (horizon_years - 1).
RECURSIVE GrowthSum(_)
GrowthSum(year) ==
    IF year = horizon_years THEN 0
    ELSE Pow(price_growth_rate_den + 1, year)
           * Pow(price_growth_rate_den, horizon_years - 1 - year)
         + GrowthSum(year + 1)

compute_savings_profile(avg_kwh_consumption, avg_kwh_solar) ==
    LET daily_offset_kwh == Min2(avg_kwh_consumption, avg_kwh_solar)
    IN  [daily_offset_kwh |-> Round3(daily_offset_kwh),
         year1_savings_tl |->
            RoundMulDiv(daily_offset_kwh,
                        electricity_price_tl_per_kwh * DaysPerYear, 1000),
         multi_year_savings_tl |->
            RoundMulDiv(daily_offset_kwh,
                        electricity_price_tl_per_kwh * DaysPerYear
                          * GrowthSum(0),
                        1000 * Pow(price_growth_rate_den, horizon_years - 1)),
         yearly_co2_kg |->
            RoundMulDiv(daily_offset_kwh, co2_kg_per_kwh * DaysPerYear, 10000),
         electricity_price_tl_per_kwh |-> electricity_price_tl_per_kwh,
         price_growth_rate_den |-> price_growth_rate_den,
         horizon_years |-> horizon_years,
         co2_kg_per_kwh |-> co2_kg_per_kwh]

\* ---------------------------------------------- recommend_ecoflow_tiers

\* tiers_db = tiers_db or ecoflow_tiers_db: None and {} select the global.
EffectiveTiers(tiers_db) ==
    IF tiers_db = << >> THEN ecoflow_tiers_db ELSE tiers_db

\* typical_kwh * 1000.0, in units of 0.1 Wh (the unit of an energy).
required_capacity_wh(prof) ==
    _safe_band(Get(prof, "daily_kwh_band", ZeroBand))[2]

\* The inverter requirement from peak_band[2] alone.
required_inverter_w_max_only(prof) ==
    LET peak_band == _safe_band(Get(prof, "peak_power_band_w", ZeroBand))
    IN  IF peak_band[3] # 0 THEN 12 * peak_band[3] ELSE 0

\* (peak_band[2] or peak_band[1]) * 1.2 if non-zero else 0, in 0.1 W.
required_inverter_w(prof) ==
    LET peak_band == _safe_band(Get(prof, "peak_power_band_w", ZeroBand))
        peak_max == IF peak_band[3] # 0 THEN peak_band[3] ELSE peak_band[2]
    IN  IF peak_max # 0 THEN 12 * peak_max ELSE 0

\* TierEligible without the inverter comparison.
TierEligibleByCapacity(tier_data, req_capacity, req_inverter) ==
    LET capacity_wh == Get(tier_data, "capacity_wh_total", Null)
        inverter_w == Get(tier_data, "inverter_w_continuous", Null)
    IN  /\ capacity_wh # Null
        /\ inverter_w # Null
        /\ Float(capacity_wh).ok
        /\ Float(inverter_w).ok
        /\ 10 * Float(capacity_wh).v >= req_capacity

\* The body of the loop over tiers_db.items(): does the tier qualify?
TierEligible(tier_data, req_capacity, req_inverter) ==
    LET capacity_wh == Get(tier_data, "capacity_wh_total", Null)
        inverter_w == Get(tier_data, "inverter_w_continuous", Null)
    IN  /\ capacity_wh # Null
        /\ inverter_w # Null
        /\ Float(capacity_wh).ok
        /\ Float(inverter_w).ok
        /\ 10 * Float(capacity_wh).v >= req_capacity
        /\ 10 * Float(inverter_w).v >= req_inverter

\* tier_copy = dict(tier_data); tier_copy.setdefault("tier_id", tier_id)
TierCopy(tier_id, tier_data) == tier_data @@ [tier_id |-> tier_id]

RECURSIVE EligibleTiers(_, _, _)
EligibleTiers(tiers, req_capacity, req_inverter) ==
    IF tiers = << >> THEN << >>
    ELSE LET rest == EligibleTiers(Tail(tiers), req_capacity, req_inverter)
             tier_id == Head(tiers)[1]
             tier_data == Head(tiers)[2]
         IN  IF TierEligible(tier_data, req_capacity, req_inverter)
             THEN <<TierCopy(tier_id, tier_data)>> \o rest
             ELSE rest

\* The sort key float(t.get("capacity_wh_total", 0)), with its exception.
CapacityKey(t) == Float(Get(t, "capacity_wh_total", Num(0)))

\* list.sort(key=...): stable, ascending.  x goes behind every element
\* whose key is not larger.
RECURSIVE InsertAscending(_, _)
InsertAscending(sorted, x) ==
    IF sorted = << >> THEN <<x>>
    ELSE IF CapacityKey(Head(sorted)).v <= CapacityKey(x).v
    THEN <<Head(sorted)>> \o InsertAscending(Tail(sorted), x)
    ELSE <<x>> \o sorted

RECURSIVE SortAscending(_)
SortAscending(s) ==
    IF s = << >> THEN << >>
    ELSE InsertAscending(SortAscending(SubSeq(s, 1, Len(s) - 1)), s[Len(s)])

\* sorted(tiers_db.items(), key=..., reverse=True)[0]: the first item, in
\* catalog order, among those of the largest key.
LargestCapacity(tiers) ==
    LET i == CHOOSE i \in 1..Len(tiers) :
                /\ \A j \in 1..Len(tiers) :
                      CapacityKey(tiers[j][2]).v <= CapacityKey(tiers[i][2]).v
                /\ \A j \in 1..(i - 1) :
                      CapacityKey(tiers[j][2]).v < CapacityKey(tiers[i][2]).v
    IN  tiers[i]

\* The branch taken when no tier qualifies.
Fallback(tiers) ==
    IF \E i \in 1..Len(tiers) : tiers[i][1] = "tier_2_comfort"
    THEN LET i == CHOOSE i \in 1..Len(tiers) : tiers[i][1] = "tier_2_comfort"
         IN  [raised |-> "none",
              value |-> <<TierCopy("tier_2_comfort", tiers[i][2])>>]
    ELSE IF \E i \in 1..Len(tiers) : ~CapacityKey(tiers[i][2]).ok
    THEN LET i == CHOOSE i \in 1..Len(tiers) :
                    /\ ~CapacityKey(tiers[i][2]).ok
                    /\ \A j \in 1..(i - 1) : CapacityKey(tiers[j][2]).ok
         IN  [raised |-> CapacityKey(tiers[i][2]).err, value |-> << >>]
    ELSE IF tiers = << >> THEN [raised |-> "none", value |-> << >>]
    ELSE LET top == LargestCapacity(tiers)
         IN  [raised |-> "none", value |-> <<TierCopy(top[1], top[2])>>]

recommend_ecoflow_tiers(prof, tiers_db) ==
    LET tiers == EffectiveTiers(tiers_db)
        found == SortAscending(
                    EligibleTiers(tiers, required_capacity_wh(prof),
                                  required_inverter_w(prof)))
    IN  IF found # << >> THEN [raised |-> "none", value |-> found]
        ELSE Fallback(tiers)

\* --------------------------------------------- calculate_energy_profile

\* The legacy list of keys becomes AC1P selections at typical usage.
ResolvePacks(packs, rich_packs) ==
    IF rich_packs # << >> THEN rich_packs
    ELSE [i \in 1..Len(packs) |->
            [group |-> "ac1p", key |-> packs[i], usage_index |-> 1]]

\* The condition without the sign test: if city and solar_wp
SolarRequestedAnySign(city, solar_wp) ==
    TruthyStr(city) /\ solar_wp # None /\ solar_wp[1] # 0

\* if city and solar_wp and solar_wp > 0
SolarRequested(city, solar_wp) ==
    TruthyStr(city) /\ solar_wp # None /\ solar_wp[1] # 0 /\ solar_wp[1] > 0

calculate_energy_profile(archetype_id, packs, expert_mode, rich_packs, city, solar_wp) ==
    LET resolved_packs == ResolvePacks(packs, rich_packs)
        load_profile == compute_load_profile(archetype_id, expert_mode,
                                             resolved_packs)
        base == load_profile.value
                  @@ [selected_packs |->
                        [i \in 1..Len(resolved_packs) |->
                            Get(resolved_packs[i], "key", "")]]
    IN  IF load_profile.raised # "none" THEN load_profile
        ELSE IF SolarRequested(city, solar_wp)
        THEN LET solar_profile == compute_solar_profile(city, solar_wp[1])
             IN  IF solar_profile.raised # "none" THEN solar_profile
                 ELSE [raised |-> "none",
                       value |->
                         base @@
                         [solar |-> solar_profile.value,
                          savings |->
                            compute_savings_profile(
                              load_profile.value.daily_kwh_band.items[2].v,
                              solar_profile.value.avg_daily_kwh)]]
        ELSE [raised |-> "none", value |-> base]

\* ----------------------------------------------------- bounds, inputs

\* The longest list of pack selections handed to compute_load_profile,
\* and the longest handed to calculate_energy_profile as rich_packs.
MaxPacks == 2
MaxRichPacks == 1

SeqsUpTo(S, n) == UNION {[1..k -> S] : k \in 0..n}

Selection(group, key, usage_index) ==
    [group |-> group, key |-> key, usage_index |-> usage_index]

\* Known and unknown groups and keys at every usage index, an index out
\* of range, and a selection that leaves group and usage_index out.
Selections ==
    {Selection("ac1p", "lighting", u) : u \in 0..2}
    \cup {Selection("DC12", "router", u) : u \in 0..2}
    \cup {Selection("ac1p", "stale", 1),
          Selection("bogus", "lighting", 1),
          Selection("bogus", "stale", 0),
          Selection("ac", "lighting", 5),
          [key |-> "lighting"]}

ArchetypeIds == {None, Some("home"), Some("ghost")}
Cities == {None, Some(""), Some("Istanbul"), Some("Atlantis")}
Wattages == {None, Some(0), Some(-500), Some(2000)}
PackKeys == {"lighting", "stale"}

\* Profiles handed to recommend_ecoflow_tiers directly.
DailyBands ==
    {ZeroBand, Band(20000, 30000, 45000), Band(400000, 500000, 600000),
     List(<<Num(1), Num(2)>>)}

PeakBands ==
    {ZeroBand, Band(200, 400, 800), Band(200, 400, 0), Band(700, 0, 0),
     Band(0, 0, 9000), List(<<Num(200), Null, Num(800)>>)}

ProfileInputs ==
    {[daily_kwh_band |-> d, peak_power_band_w |-> p] :
        d \in DailyBands, p \in PeakBands}
    \cup {[daily_kwh_band |-> d] : d \in DailyBands}

\* ------------------------------------------------------- state machine

NoResult == [raised |-> "none", value |-> NoValue]

Init ==
    /\ \E datasets \in {"std", "odd"} :
          /\ archetypes_db
               = IF datasets = "std" THEN StdArchetypes ELSE OddArchetypes
          /\ pack_dbs = IF datasets = "std" THEN StdPacks ELSE OddPacks
    /\ solar_generation_db = SolarGeneration
    /\ ecoflow_tiers_db = EcoflowTiers
    /\ pc = "idle"
    /\ call = [fn |-> "none"]
    /\ profile = NoResult
    /\ required = [capacity_wh |-> 0, inverter_w |-> 0]
    /\ recommendations = NoResult

\* A call of compute_load_profile.
ComputeLoadProfile ==
    /\ pc = "idle"
    /\ \E archetype_id \in ArchetypeIds, expert_mode \in BOOLEAN,
          packs \in SeqsUpTo(Selections, MaxPacks) :
          LET r == compute_load_profile(archetype_id, expert_mode, packs)
          IN  /\ call' = [fn |-> "compute_load_profile",
                          archetype_id |-> archetype_id,
                          expert_mode |-> expert_mode,
                          packs |-> packs]
              /\ profile' = r
              /\ pc' = IF r.raised = "none" THEN "loaded" ELSE "raised"
    /\ UNCHANGED <<dbs, required, recommendations>>

\* A call of calculate_energy_profile, with rich selections or with the
\* legacy list of keys.
CalculateEnergyProfile ==
    /\ pc = "idle"
    /\ \E archetype_id \in ArchetypeIds, expert_mode \in BOOLEAN,
          city \in Cities, solar_wp \in Wattages,
          p \in ({[packs |-> << >>, rich_packs |-> r] :
                    r \in SeqsUpTo(Selections, MaxRichPacks)}
                 \cup {[packs |-> k, rich_packs |-> << >>] :
                    k \in SeqsUpTo(PackKeys, MaxPacks)}) :
          LET r == calculate_energy_profile(archetype_id, p.packs, expert_mode,
                                            p.rich_packs, city, solar_wp)
          IN  /\ call' = [fn |-> "calculate_energy_profile",
                          archetype_id |-> archetype_id,
                          packs |-> p.packs,
                          expert_mode |-> expert_mode,
                          rich_packs |-> p.rich_packs,
                          city |-> city,
                          solar_wp |-> solar_wp]
              /\ profile' = r
              /\ pc' = IF r.raised = "none" THEN "profiled" ELSE "raised"
    /\ UNCHANGED <<dbs, required, recommendations>>

\* A call of recommend_ecoflow_tiers.
Recommend(prof, tiers_db) ==
    LET r == recommend_ecoflow_tiers(prof, tiers_db)
    IN  /\ call' = [fn |-> "recommend_ecoflow_tiers",
                    profile |-> prof, tiers_db |-> tiers_db]
        /\ required' = [capacity_wh |-> required_capacity_wh(prof),
                        inverter_w |-> required_inverter_w(prof)]
        /\ recommendations' = r
        /\ pc' = IF r.raised = "none" THEN "recommended" ELSE "raised"
        /\ UNCHANGED <<dbs, profile>>

\* api_calculate: the profile just computed, against the global catalog.
RecommendForProfile ==
    /\ pc = "profiled"
    /\ Recommend(profile.value, << >>)

\* A direct call, with any profile and any catalog.
RecommendEcoflowTiers ==
    /\ pc = "idle"
    /\ \E prof \in ProfileInputs, tiers_db \in TierCatalogs :
          Recommend(prof, tiers_db)

Next ==
    \/ ComputeLoadProfile
    \/ CalculateEnergyProfile
    \/ RecommendForProfile
    \/ RecommendEcoflowTiers

Spec == Init /\ [][Next]_vars

\* ---------------------------------------------------------- properties

\* A load profile was returned, by either function, and `call` still
\* holds the arguments it was computed from.
HasBands == pc \in {"loaded", "profiled"}

\* The selections compute_load_profile received.
ResolvedPacks ==
    IF call.fn = "compute_load_profile" THEN call.packs
    ELSE ResolvePacks(call.packs, call.rich_packs)

\* The three numbers of a returned band.
Nums(band) == [i \in 1..3 |-> band.items[i].v]

DailyBand == Nums(profile.value.daily_kwh_band)
PeakBand == Nums(profile.value.peak_power_band_w)

Ordered(b) == b[1] <= b[2] /\ b[2] <= b[3]

GroupNames ==
    {"ac1p", "ac", "ac_1p", "ac3p", "ac_3p",
     "dc12", "dc12v", "dc24", "dc24v", "dc48", "dc48v"}

GroupOf(item) == Lower(Get(item, "group", "ac1p"))

KnownGroup(item) == GroupOf(item) \in GroupNames

TableOf(item) ==
    LET g == GroupOf(item)
    IN  CASE g \in {"ac1p", "ac", "ac_1p"} -> pack_dbs.ac1p
          [] g \in {"ac3p", "ac_3p"} -> pack_dbs.ac3p
          [] g \in {"dc12", "dc12v"} -> pack_dbs.dc12v
          [] g \in {"dc24", "dc24v"} -> pack_dbs.dc24v
          [] g \in {"dc48", "dc48v"} -> pack_dbs.dc48v

KnownKey(item) == KnownGroup(item) /\ Get(item, "key", "") \in DOMAIN TableOf(item)

\* The usage index a selection counts at: 0, 1 or 2.
IndexOf(item) ==
    LET u == Get(item, "usage_index", 1)
    IN  IF u < 0 THEN 0 ELSE IF u > 2 THEN 2 ELSE u

\* The catalog entry of a selection with a known key, and its two bands.
PackOf(item) == TableOf(item)[Get(item, "key", "")]
KwhOf(item) == _safe_band(Get(PackOf(item), "kwh_day", Null))
PeakOf(item) == _safe_band(Get(PackOf(item), "peak_w", Null))

\* The archetype is looked up and found.
ArchetypeUsed ==
    /\ ~call.expert_mode
    /\ TruthyStr(call.archetype_id)
    /\ call.archetype_id[1] \in DOMAIN archetypes_db

BaseKwh ==
    IF ArchetypeUsed
    THEN _safe_band(Get(archetypes_db[call.archetype_id[1]],
                        "base_load_kwh_day", Null))
    ELSE <<0, 0, 0>>

BasePeak ==
    IF ArchetypeUsed
    THEN _safe_band(Get(archetypes_db[call.archetype_id[1]],
                        "base_peak_w", Null))
    ELSE <<0, 0, 0>>

BandOK(value) ==
    LET b == _safe_band(value) IN 0 <= b[1] /\ Ordered(b)

\* Every band of the loaded catalogs is non-negative and ordered.
CatalogOrdered ==
    /\ \A a \in DOMAIN archetypes_db :
          /\ BandOK(Get(archetypes_db[a], "base_load_kwh_day", Null))
          /\ BandOK(Get(archetypes_db[a], "base_peak_w", Null))
    /\ \A g \in DOMAIN pack_dbs : \A k \in DOMAIN pack_dbs[g] :
          /\ BandOK(Get(pack_dbs[g][k], "kwh_day", Null))
          /\ BandOK(Get(pack_dbs[g][k], "peak_w", Null))

\* The accumulators as they stand when the loop over the packs ends.
RawAcc ==
    PackLoop(AddArchetype(ZeroAcc, call.archetype_id, call.expert_mode),
             ResolvedPacks)

RemoveAt(s, i) == SubSeq(s, 1, i - 1) \o SubSeq(s, i + 1, Len(s))

\* C1: whenever compute_load_profile returns, whatever the archetype, the
\* mode, the catalogs and the selections (unknown keys included), the
\* returned daily_kwh_band has min <= typical <= max.
C1_DailyBandOrdered == HasBands => Ordered(DailyBand)

\* C1 witness: a call returned whose accumulated minimum exceeded the
\* accumulated typical value, with an unknown key among its selections.
C1_Witness ==
    /\ HasBands
    /\ RawAcc.min_kwh > RawAcc.avg_kwh
    /\ \E i \in 1..Len(ResolvedPacks) :
          KnownGroup(ResolvedPacks[i]) /\ ~KnownKey(ResolvedPacks[i])

\* C2: over catalogs whose bands are non-negative and ordered, whenever
\* compute_load_profile returns, the returned peak_power_band_w has
\* min <= typical <= max, in expert mode with only low-usage selections too.
C2_PeakBandOrdered == (HasBands /\ CatalogOrdered) => Ordered(PeakBand)

\* recommend_ecoflow_tiers was the last call; it returned or raised.
Recommended == call.fn = "recommend_ecoflow_tiers"

\* The catalog the last call of recommend_ecoflow_tiers worked on.
Tiers == EffectiveTiers(call.tiers_db)

\* A tier field that is present, not null and numeric.
Parses(tier_data, field) ==
    /\ field \in DOMAIN tier_data
    /\ tier_data[field].t \in {"num", "str"}
    /\ Float(tier_data[field]).ok

CapacityOf(tier_data) == Float(tier_data.capacity_wh_total).v
InverterOf(tier_data) == Float(tier_data.inverter_w_continuous).v

\* The typical daily energy of the profile handed in, in 0.1 Wh, and the
\* peak band it carries (zeros when the band is absent or malformed).
TypicalOf(prof) == _safe_band(Get(prof, "daily_kwh_band", ZeroBand))[2]
PeakOfProfile(prof) == _safe_band(Get(prof, "peak_power_band_w", ZeroBand))

\* The inverter requirement as the specification states it, in 0.1 W.
StatedInverter(prof) ==
    LET pb == PeakOfProfile(prof)
    IN  IF pb[3] # 0 THEN 12 * pb[3]
        ELSE IF pb[2] # 0 THEN 12 * pb[2]
        ELSE 0

\* The positions of the catalog whose tier meets both requirements.
EligibleAt ==
    {i \in 1..Len(Tiers) :
        /\ Parses(Tiers[i][2], "capacity_wh_total")
        /\ Parses(Tiers[i][2], "inverter_w_continuous")
        /\ 10 * CapacityOf(Tiers[i][2]) >= TypicalOf(call.profile)
        /\ 10 * InverterOf(Tiers[i][2]) >= StatedInverter(call.profile)}

ReturnedIds ==
    [i \in 1..Len(recommendations.value) |-> recommendations.value[i].tier_id]

\* C3: over a non-empty catalog recommend_ecoflow_tiers returns a non-empty
\* list; when no tier is eligible the list is the single tier
\* "tier_2_comfort" if the catalog has it, else the single tier of the
\* largest capacity_wh_total; also when fields are missing or unparsable.
C3_FallbackNeverFails ==
    (Recommended /\ Tiers # << >>) =>
        /\ recommendations.raised = "none"
        /\ recommendations.value # << >>
        /\ EligibleAt = {} =>
              /\ Len(recommendations.value) = 1
              /\ IF \E i \in 1..Len(Tiers) : Tiers[i][1] = "tier_2_comfort"
                 THEN ReturnedIds[1] = "tier_2_comfort"
                 ELSE \E i \in 1..Len(Tiers) :
                        /\ ReturnedIds[1] = Tiers[i][1]
                        /\ \A j \in 1..Len(Tiers) :
                              Parses(Tiers[j][2], "capacity_wh_total") =>
                                /\ Parses(Tiers[i][2], "capacity_wh_total")
                                /\ CapacityOf(Tiers[j][2])
                                     <= CapacityOf(Tiers[i][2])

\* C4: when some tier is eligible, recommend_ecoflow_tiers returns the
\* eligible tiers, each once and no other, by non-decreasing capacity;
\* the capacity requirement is the typical daily energy in Wh.
C4_ExactlyTheEligible ==
    (Recommended /\ EligibleAt # {}) =>
        /\ recommendations.raised = "none"
        /\ required.capacity_wh = TypicalOf(call.profile)
        /\ Len(recommendations.value) = Cardinality(EligibleAt)
        /\ {ReturnedIds[i] : i \in 1..Len(ReturnedIds)}
             = {Tiers[i][1] : i \in EligibleAt}
        /\ \A i \in 1..(Len(ReturnedIds) - 1) :
              CapacityOf(recommendations.value[i])
                <= CapacityOf(recommendations.value[i + 1])

\* C4 witness: a catalog given out of capacity order, of which two tiers
\* are eligible and one is not.
C4_Witness ==
    /\ Recommended
    /\ Cardinality(EligibleAt) = 2
    /\ Len(Tiers) = 3
    /\ \E i, j \in EligibleAt :
          i < j /\ CapacityOf(Tiers[i][2]) > CapacityOf(Tiers[j][2])
    /\ Len(recommendations.value) = 2

\* C9: the inverter requirement is 1.2 x peak_max when peak_max is not
\* zero, else 1.2 x peak_typical when that is not zero, and 0 only when
\* both are zero; peak_min has no influence on what is returned; no tier
\* with a smaller inverter is returned when some tier is eligible.
C9_InverterRequirement ==
    Recommended =>
        LET pb == PeakOfProfile(call.profile)
        IN  /\ pb[3] # 0 => required.inverter_w = 12 * pb[3]
            /\ (pb[3] = 0 /\ pb[2] # 0) => required.inverter_w = 12 * pb[2]
            /\ required.inverter_w = 0 <=> (pb[3] = 0 /\ pb[2] = 0)
            /\ \A m \in {0, 1, pb[1] + 100000} :
                  recommend_ecoflow_tiers(
                      [daily_kwh_band |->
                          Get(call.profile, "daily_kwh_band", ZeroBand),
                       peak_power_band_w |-> Band(m, pb[2], pb[3])],
                      call.tiers_db) = recommendations
            /\ EligibleAt # {} =>
                  \A i \in 1..Len(recommendations.value) :
                      10 * InverterOf(recommendations.value[i])
                        >= required.inverter_w

\* C9 witness: a profile whose peak_max is zero and whose peak_typical is
\* not, for which a tier was found eligible.
C9_Witness ==
    /\ Recommended
    /\ PeakOfProfile(call.profile)[3] = 0
    /\ PeakOfProfile(call.profile)[2] # 0
    /\ EligibleAt # {}
    /\ recommendations.raised = "none"
    /\ Len(recommendations.value) < Len(Tiers)

\* calculate_energy_profile was the last call; it returned or raised.
Calculated == call.fn = "calculate_energy_profile"

\* compute_load_profile or calculate_energy_profile was the last call.
Loaded == call.fn \in {"compute_load_profile", "calculate_energy_profile"}

\* The original C5: calculate_energy_profile raises whenever the given
\* archetype id is not in the archetype catalog or the given city is not
\* in the solar catalog, whatever the mode, the packs and the wattage.
C5_RaisesOnAnyUnknownId ==
    (/\ Calculated
     /\ \/ /\ call.archetype_id # None
            /\ call.archetype_id[1] \notin DOMAIN archetypes_db
        \/ /\ call.city # None
            /\ call.city[1] \notin DOMAIN solar_generation_db)
    => profile.raised # "none"

\* C5 as amended: calculate_energy_profile raises whenever expert_mode is
\* false and the given non-empty archetype id is not in the archetype
\* catalog, or a non-empty city that is not in the solar catalog is given
\* with a wattage > 0, whatever the pack selections.
C5_RaisesOnLookedUpId ==
    (/\ Calculated
     /\ \/ /\ ~call.expert_mode
            /\ TruthyStr(call.archetype_id)
            /\ call.archetype_id[1] \notin DOMAIN archetypes_db
        \/ /\ TruthyStr(call.city)
            /\ call.city[1] \notin DOMAIN solar_generation_db
            /\ call.solar_wp # None
            /\ call.solar_wp[1] > 0)
    => (profile.raised # "none" /\ profile.value = NoValue /\ pc = "raised")

\* C5 witness: an unknown archetype in normal mode, with a valid pack
\* selection and no solar request, and the call raised.
C5_Witness ==
    /\ Calculated
    /\ ~call.expert_mode
    /\ call.archetype_id = Some("ghost")
    /\ ~SolarRequested(call.city, call.solar_wp)
    /\ call.rich_packs = <<Selection("ac1p", "lighting", 1)>>
    /\ profile.raised = "KeyError"

\* C6: a selection of a known group whose key is not in the group's
\* catalog raises nothing and changes nothing: the call behaves as the
\* same call without it, wherever it sits.  A selection of an unknown
\* group makes the call fail, with any key and after valid selections.
C6_UnknownKeySkipped ==
    (call.fn = "compute_load_profile") =>
        /\ \A i \in 1..Len(call.packs) :
              (KnownGroup(call.packs[i]) /\ ~KnownKey(call.packs[i])) =>
                  compute_load_profile(call.archetype_id, call.expert_mode,
                                       RemoveAt(call.packs, i)) = profile
        /\ (\E i \in 1..Len(call.packs) : ~KnownGroup(call.packs[i]))
              => (profile.raised # "none" /\ pc = "raised")

\* C6 witness: a call returned that had an unknown key of a known group
\* in front of a selection that counts.
C6_Witness ==
    /\ call.fn = "compute_load_profile"
    /\ pc = "loaded"
    /\ Len(call.packs) = 2
    /\ KnownGroup(call.packs[1]) /\ ~KnownKey(call.packs[1])
    /\ KnownKey(call.packs[2])
    /\ DailyBand[3] > BaseKwh[3]

\* C7: in a returned profile "solar" and "savings" are both present or
\* both absent; they are present exactly when a non-empty city and a
\* wattage > 0 were given, and then the daily offset is the smaller of
\* the typical daily energy and the solar average; without them no
\* solar error is raised: the call fails only as the load profile does.
C7_SolarAndSavings ==
    Calculated =>
        LET asked == /\ TruthyStr(call.city)
                     /\ call.solar_wp # None
                     /\ call.solar_wp[1] > 0
        IN  /\ pc = "profiled" =>
                  /\ ("solar" \in DOMAIN profile.value)
                        <=> ("savings" \in DOMAIN profile.value)
                  /\ ("solar" \in DOMAIN profile.value) <=> asked
                  /\ asked =>
                        profile.value.savings.daily_offset_kwh
                          = Min2(DailyBand[2],
                                 profile.value.solar.avg_daily_kwh)
            /\ ~asked =>
                  profile.raised
                    = compute_load_profile(call.archetype_id, call.expert_mode,
                                           ResolvedPacks).raised

\* C7 witness: a profile with solar and savings whose offset is the
\* consumption, the solar average being the larger of the two.
C7_Witness ==
    /\ Calculated
    /\ pc = "profiled"
    /\ "savings" \in DOMAIN profile.value
    /\ profile.value.savings.daily_offset_kwh > 0
    /\ profile.value.savings.daily_offset_kwh
         < profile.value.solar.avg_daily_kwh

\* A selection that resolves to a catalog entry.
Resolves(item) == KnownKey(item) /\ PackOf(item) # << >>

\* The sum over the selections of slot i of their energy bands, and the
\* largest of slot i of their peak bands (0 when there is none).
RECURSIVE SumKwh(_, _)
SumKwh(packs, i) ==
    IF packs = << >> THEN 0
    ELSE KwhOf(Head(packs))[i] + SumKwh(Tail(packs), i)

RECURSIVE MaxPeak(_, _)
MaxPeak(packs, i) ==
    IF packs = << >> THEN 0
    ELSE Max2(PeakOf(Head(packs))[i], MaxPeak(Tail(packs), i))

\* The case C8 is about: regular catalogs, a known archetype in normal
\* mode, and only selections of known keys at usage_index 1.
C8_Case ==
    /\ HasBands
    /\ CatalogOrdered
    /\ ArchetypeUsed
    /\ \A i \in 1..Len(ResolvedPacks) :
          /\ Resolves(ResolvedPacks[i])
          /\ Get(ResolvedPacks[i], "usage_index", 1) = 1

\* The original C8: in that case daily_kwh_band is the componentwise sum
\* of the archetype's energy band and the packs' energy bands, and
\* peak_power_band_w the componentwise maximum of the peak bands.
C8_ExactSums ==
    C8_Case =>
        \A i \in 1..3 :
            /\ DailyBand[i] = BaseKwh[i] + SumKwh(ResolvedPacks, i)
            /\ 10 * PeakBand[i] = Max2(BasePeak[i], MaxPeak(ResolvedPacks, i))

\* C8 as amended: daily_kwh_band is that componentwise sum rounded to 3
\* decimal places, and peak_power_band_w that componentwise maximum
\* rounded to whole watts.
C8_RoundedSums ==
    C8_Case =>
        \A i \in 1..3 :
            /\ DailyBand[i] = Round3(BaseKwh[i] + SumKwh(ResolvedPacks, i))
            /\ PeakBand[i]
                 = RoundW(Max2(BasePeak[i], MaxPeak(ResolvedPacks, i)))

\* C8 witness: the archetype with two different packs at typical usage.
C8_Witness ==
    /\ C8_Case
    /\ Len(ResolvedPacks) = 2
    /\ Get(ResolvedPacks[1], "key", "") # Get(ResolvedPacks[2], "key", "")
    /\ DailyBand[1] > BaseKwh[1]
    /\ DailyBand[3] > BaseKwh[3]

\* The selections that count at usage index 1 and resolve.
RECURSIVE TypicalSelections(_)
TypicalSelections(packs) ==
    IF packs = << >> THEN << >>
    ELSE IF Resolves(Head(packs)) /\ IndexOf(Head(packs)) = 1
    THEN <<Head(packs)>> \o TypicalSelections(Tail(packs))
    ELSE TypicalSelections(Tail(packs))

\* The original C10: the returned typical energy is the archetype's
\* typical energy plus the typical energy of every resolved pack selected
\* at usage_index 1.
C10_TypicalExact ==
    HasBands =>
        DailyBand[2]
          = BaseKwh[2] + SumKwh(TypicalSelections(ResolvedPacks), 2)

\* C10 as amended: the returned typical energy is that sum rounded to 3
\* decimal places; the consistency block never changes the typical
\* value; taking a selection at usage_index 0 or 2 away never changes it;
\* so required_capacity_wh is that rounded sum too, and it is 0 in expert
\* mode when no selection is at usage_index 1.
C10_TypicalRounded ==
    HasBands =>
        LET typical == Round3(BaseKwh[2]
                              + SumKwh(TypicalSelections(ResolvedPacks), 2))
        IN  /\ DailyBand[2] = typical
            /\ Consistency(<<RawAcc.min_kwh, RawAcc.avg_kwh,
                             RawAcc.max_kwh>>)[2] = RawAcc.avg_kwh
            /\ \A i \in 1..Len(ResolvedPacks) :
                  IndexOf(ResolvedPacks[i]) # 1 =>
                    Nums(compute_load_profile(
                           call.archetype_id, call.expert_mode,
                           RemoveAt(ResolvedPacks, i)).value.daily_kwh_band)[2]
                      = DailyBand[2]
            /\ required_capacity_wh(profile.value) = typical
            /\ (/\ call.expert_mode
                /\ \A i \in 1..Len(ResolvedPacks) :
                      IndexOf(ResolvedPacks[i]) # 1)
                 => required_capacity_wh(profile.value) = 0

\* C10 witness: expert mode, a low and a high selection of a pack whose
\* energy is not zero, and the typical energy returned is 0.
C10_Witness ==
    /\ HasBands
    /\ call.expert_mode
    /\ Len(ResolvedPacks) = 2
    /\ Resolves(ResolvedPacks[1]) /\ IndexOf(ResolvedPacks[1]) = 0
    /\ Resolves(ResolvedPacks[2]) /\ IndexOf(ResolvedPacks[2]) = 2
    /\ RawAcc.min_kwh > 0
    /\ DailyBand[2] = 0

====
